---- MODULE Spec2Model ----
(***************************************************************************)
(* Model of concept_library.py: ConceptLibrary (encode, store, rebuild,    *)
(* search) over SQLiteStorage (a sqlite table "concepts", an Annoy index   *)
(* kept in memory and saved at db_path + '.annoy').                        *)
(*                                                                         *)
(* Persistent state: table, seq (sqlite_sequence), file (the .annoy file). *)
(* Volatile state: conn, txn (the connection's open transaction), lib (the *)
(* constructor arguments), index (self.annoy_index).                       *)
(* History: hist (the successful store calls, in order), issued (the ids   *)
(* add_interaction returned on this instance), last (the most recent       *)
(* operation), env (the fault the environment injected into it),           *)
(* query/results (the most recent search).                                 *)
(***************************************************************************)
EXTENDS Integers, Sequences, FiniteSets, TLC

VARIABLES table, seq, file, conn, txn, lib, index, hist, issued, last, env,
          query, results

vars == <<table, seq, file, conn, txn, lib, index, hist, issued, last, env,
          query, results>>

\* ---------------------------------------------------------------- bounds
\* Largest row id the model lets the store assign.
MaxRecords == 2
\* Largest top_k a search is issued with.
MaxTopK == 2

\* ------------------------------------------------------- input alphabets
Queries == {"a", "c"}
Dims == {2}
Metrics == {"angular", "euclidean"}

\* Python values that occur in metadata, all of one shape.
PyStr(s) == [t |-> "str", s |-> s, n |-> 0]
PyInt(n) == [t |-> "int", s |-> "", n |-> n]
PyBool(b) == [t |-> "bool", s |-> "", n |-> IF b THEN 1 ELSE 0]

\* The add_interaction calls the model issues: a text and its metadata, a
\* dict given as the sequence of its (key, value) items.
Inputs ==
    { [text |-> "a", meta |-> << [k |-> "category", v |-> PyStr("health")] >>],
      [text |-> "b", meta |-> << [k |-> "n", v |-> PyInt(1)],
                                 [k |-> "ok", v |-> PyBool(TRUE)] >>] }
Texts == {inp.text : inp \in Inputs}
Metas == {inp.meta : inp \in Inputs}

\* ------------------------------------------------------------------ json
Tok(kind, s, n) == [kind |-> kind, s |-> s, n |-> n]

\* A mutant: values are written with str(), so numbers and booleans come
\* back as strings.
DumpValAsStr(v) ==
    CASE v.t = "str" -> Tok("string", v.s, 0)
      [] v.t = "int" -> Tok("string", "int", v.n)
      [] OTHER -> Tok("string", "bool", v.n)

\* json.dumps of one metadata value.
DumpVal(v) ==
    CASE v.t = "str" -> Tok("string", v.s, 0)
      [] v.t = "int" -> Tok("number", "", v.n)
      [] OTHER -> Tok(IF v.n = 1 THEN "true" ELSE "false", "", 0)

\* json.loads of one value token.
LoadVal(tk) ==
    CASE tk.kind = "string" -> PyStr(tk.s)
      [] tk.kind = "number" -> PyInt(tk.n)
      [] tk.kind = "true" -> PyBool(TRUE)
      [] OTHER -> PyBool(FALSE)

\* json.dumps(record['metadata']): key token, value token, per item.
JsonDumps(meta) ==
    [i \in 1..(2 * Len(meta)) |->
        IF i % 2 = 1 THEN Tok("string", meta[(i + 1) \div 2].k, 0)
                     ELSE DumpVal(meta[i \div 2].v)]

\* json.loads(row[2]).
JsonLoads(toks) ==
    [i \in 1..(Len(toks) \div 2) |->
        [k |-> toks[2 * i - 1].s, v |-> LoadVal(toks[2 * i])]]

\* json.dumps(record['vector']) and json.loads(vector_str): number tokens.
VecDumps(vec) == [i \in 1..Len(vec) |-> Tok("number", "", vec[i])]
VecLoads(toks) == [i \in 1..Len(toks) |-> toks[i].n]

\* --------------------------------------------------------------- encoder
\* self.encoder.encode(text): a deterministic vector of the encoder's
\* dimension.
Encode(d, text) ==
    IF d = 2
    THEN CASE text = "a" -> <<1, 0>>
           [] text = "b" -> <<3, 1>>
           [] OTHER -> <<0, 1>>
    ELSE CASE text = "a" -> <<1, 0, 0>>
           [] text = "b" -> <<3, 1, 0>>
           [] OTHER -> <<0, 1, 1>>

\* ------------------------------------------------------------- distances
RECURSIVE DotFrom(_, _, _)
DotFrom(x, y, i) ==
    IF i > Len(x) THEN 0 ELSE x[i] * y[i] + DotFrom(x, y, i + 1)
Dot(x, y) == DotFrom(x, y, 1)

RECURSIVE SqDistFrom(_, _, _)
SqDistFrom(x, y, i) ==
    IF i > Len(x) THEN 0
    ELSE (x[i] - y[i]) * (x[i] - y[i]) + SqDistFrom(x, y, i + 1)

\* Angular distance 2 - 2cos(q, x) orders by cosine: x is strictly nearer
\* to q than y iff cos(q, x) > cos(q, y), compared without square roots.
AngularNearer(q, x, y) ==
    LET nx == Dot(q, x)
        ny == Dot(q, y)
        xx == Dot(x, x)
        yy == Dot(y, y)
    IN  IF nx >= 0 /\ ny < 0 THEN TRUE
        ELSE IF nx < 0 /\ ny >= 0 THEN FALSE
        ELSE IF nx >= 0 THEN nx * nx * yy > ny * ny * xx
        ELSE nx * nx * yy < ny * ny * xx

EuclideanNearer(q, x, y) == SqDistFrom(q, x, 1) < SqDistFrom(q, y, 1)

Nearer(metric, q, x, y) ==
    IF metric = "angular" THEN AngularNearer(q, x, y)
    ELSE EuclideanNearer(q, x, y)

\* Items are compared as (distance, id) pairs.
Before(metric, q, a, b) ==
    \/ Nearer(metric, q, a.vector, b.vector)
    \/ /\ ~Nearer(metric, q, b.vector, a.vector)
       /\ a.id < b.id

\* The items of an index, nearest first.
RECURSIVE Ranked(_, _, _)
Ranked(metric, q, items) ==
    IF items = {} THEN << >>
    ELSE LET first == CHOOSE a \in items :
                        \A b \in items \ {a} : Before(metric, q, a, b)
         IN  <<first>> \o Ranked(metric, q, items \ {first})

Min(a, b) == IF a < b THEN a ELSE b
MaxOf(S) == IF S = {} THEN 0 ELSE CHOOSE m \in S : \A x \in S : x <= m

\* ------------------------------------------------------------ the table
\* A row of the concepts table, as store() writes it.
Row(id, vec, meta, text) ==
    [id |-> id, vector |-> VecDumps(vec), metadata |-> JsonDumps(meta),
     raw_text |-> text]

Ids(rows) == {r.id : r \in rows}

\* The rows this connection's statements see: committed rows and the rows
\* of its own open transaction.
Visible == table \cup txn

\* A mutant: ids are numbered within the open transaction only.
NextIdPerTransaction == MaxOf(Ids(txn)) + 1

\* INTEGER PRIMARY KEY AUTOINCREMENT: one more than the largest id ever
\* used, which sqlite_sequence remembers.
NextId == MaxOf({seq} \cup Ids(Visible)) + 1

\* ------------------------------------------------------------ the index
NewIndex(d, m) == [dim |-> d, metric |-> m, items |-> {}, built |-> FALSE]
NoIndex == NewIndex(0, "none")

NoFile == [status |-> "absent", dim |-> 0, metric |-> "none", items |-> {}]
PartialFile == [status |-> "corrupt", dim |-> 0, metric |-> "none", items |-> {}]
\* A mutant: the built index is never written to disk.
SaveSkipped(ix) == NoFile

\* AnnoyIndex.save: the file holds the built index.
SavedFile(ix) ==
    [status |-> "valid", dim |-> ix.dim, metric |-> ix.metric, items |-> ix.items]

\* AnnoyIndex.load: fails (OSError) on a truncated file and on one that is
\* not a whole number of nodes of this index's node size, which depends on
\* the dimension and on the metric ("Index size is not a multiple of vector
\* size. Ensure you are opening using the same metric ...").
Loadable(f, d, m) == f.status = "valid" /\ f.dim = d /\ f.metric = m

\* The rows of a set in rowid order, as the SELECT yields them.
RECURSIVE InIdOrder(_)
InIdOrder(rows) ==
    IF rows = {} THEN << >>
    ELSE LET r == CHOOSE x \in rows : \A y \in rows : x.id <= y.id
         IN  <<r>> \o InIdOrder(rows \ {r})

\* A mutant: the loop stops one row early.
RECURSIVE AddItemsSkipLast(_, _, _, _, _)
AddItemsSkipLast(rs, i, d, stopAt, acc) ==
    IF i >= Len(rs) THEN [items |-> acc, done |-> TRUE]
    ELSE IF i = stopAt \/ Len(VecLoads(rs[i].vector)) # d
         THEN [items |-> acc, done |-> FALSE]
         ELSE AddItemsSkipLast(rs, i + 1, d, stopAt,
                  acc \cup {[id |-> rs[i].id, vector |-> VecLoads(rs[i].vector)]})

\* The loop of _build_annoy_index over the rows: add_item raises on a
\* vector of the wrong length, and the read of row number stopAt fails when
\* stopAt > 0. Gives the items added and whether the loop finished.
RECURSIVE AddItems(_, _, _, _, _)
AddItems(rs, i, d, stopAt, acc) ==
    IF i > Len(rs) THEN [items |-> acc, done |-> TRUE]
    ELSE IF i = stopAt \/ Len(VecLoads(rs[i].vector)) # d
         THEN [items |-> acc, done |-> FALSE]
         ELSE AddItems(rs, i + 1, d, stopAt,
                       acc \cup {[id |-> rs[i].id, vector |-> VecLoads(rs[i].vector)]})

BuildFaults == {"none", "read", "build", "save_open", "save_write"}
BuildCrashes == {"crash_before_save", "crash_save_unlinked", "crash_save_partial",
                 "crash_after_save"}

\* The rows whose read can fail: any of them under the fault "read".
StopRows(fault, rows) ==
    IF fault = "read" THEN 1..Cardinality(rows) ELSE {0}

\* The metric of a rebuilt index, AnnoyIndex(self.embedding_dim, 'angular'),
\* whatever annoy_metric m the storage was constructed with.
BuildMetric(m) == "angular"

\* _build_annoy_index over rows, with storage dimension d, under fault (one
\* of BuildFaults or BuildCrashes; stopAt is the row whose read fails).
\* Gives ok (no exception), the index self.annoy_index now names, the file.
Build(rows, d, m, fault, stopAt, oldFile) ==
    LET loop == AddItems(InIdOrder(rows), 1, d,
                         IF fault = "read" THEN stopAt ELSE 0, {})
        fresh == [dim |-> d, metric |-> BuildMetric(m), items |-> loop.items,
                  built |-> FALSE]
        built == [fresh EXCEPT !.built = TRUE]
    IN  IF ~loop.done \/ fault = "build"
        THEN [ok |-> FALSE, index |-> fresh, file |-> oldFile]
        ELSE CASE fault \in {"save_open", "crash_save_unlinked"} ->
                    [ok |-> FALSE, index |-> built, file |-> NoFile]
               [] fault \in {"save_write", "crash_save_partial"} ->
                    [ok |-> FALSE, index |-> built, file |-> PartialFile]
               [] fault = "crash_before_save" ->
                    [ok |-> FALSE, index |-> built, file |-> oldFile]
               [] OTHER ->
                    [ok |-> fault = "none", index |-> built, file |-> SavedFile(built)]

\* AnnoyIndex.get_nns_by_vector: the ids of the top_k nearest items; an
\* index that was never built has no trees and yields nothing.
Query(ix, qv, k) ==
    IF ~ix.built THEN << >>
    ELSE LET r == Ranked(ix.metric, qv, ix.items)
         IN  [i \in 1..Min(k, Len(r)) |-> r[i].id]

\* A mutant: the loop ends at the first id without a row.
RECURSIVE HydrateUntilMissing(_, _, _)
HydrateUntilMissing(nids, i, rows) ==
    IF i > Len(nids) THEN << >>
    ELSE LET hit == {r \in rows : r.id = nids[i]}
         IN  IF hit = {} THEN << >>
             ELSE LET row == CHOOSE r \in hit : TRUE
                  IN  << [id |-> row.id, vector |-> VecLoads(row.vector),
                          metadata |-> JsonLoads(row.metadata),
                          raw_text |-> row.raw_text] >>
                      \o HydrateUntilMissing(nids, i + 1, rows)

\* The loop of SQLiteStorage.search: fetch each neighbour's row, skip ids
\* without one.
RECURSIVE Hydrate(_, _, _)
Hydrate(nids, i, rows) ==
    IF i > Len(nids) THEN << >>
    ELSE LET hit == {r \in rows : r.id = nids[i]}
         IN  IF hit = {} THEN Hydrate(nids, i + 1, rows)
             ELSE LET row == CHOOSE r \in hit : TRUE
                  IN  << [id |-> row.id, vector |-> VecLoads(row.vector),
                          metadata |-> JsonLoads(row.metadata),
                          raw_text |-> row.raw_text] >>
                      \o Hydrate(nids, i + 1, rows)

NoQuery == [q |-> "", k |-> 0, eDim |-> 0, sDim |-> 0, metric |-> "none"]
NoLib == [eDim |-> 0, sDim |-> 0, metric |-> "none"]

\* ------------------------------------------------------------------ Init
\* No database file, no index file, no instance.
Init ==
    /\ table = {}
    /\ seq = 0
    /\ file = NoFile
    /\ conn = "none"
    /\ txn = {}
    /\ lib = NoLib
    /\ index = NoIndex
    /\ hist = << >>
    /\ issued = {}
    /\ last = "init"
    /\ env = "none"
    /\ query = NoQuery
    /\ results = << >>

\* --------------------------------------------------------------- actions
\* A mutant: the schema is recreated from scratch at every startup.
DropAndCreate(rows) == {}

\* _create_table: CREATE TABLE IF NOT EXISTS leaves an existing table and
\* its rows as they are.
CreateTable(rows) == rows

\* SQLiteStorage(db_path, embedding_dim=sd, annoy_metric=m) followed by
\* ConceptLibrary(storage_backend=...) with an encoder of dimension ed.
\* _create_table is idempotent and commits nothing new; _load_annoy_index
\* loads the file or, on OSError, rebuilds.
Open(ed, sd, m, fault, stopAt) ==
    /\ conn # "open"
    /\ fault \in BuildFaults \cup {"crash_save_unlinked", "crash_save_partial"}
    /\ stopAt \in StopRows(fault, table)
    /\ IF file.status # "absent" /\ Loadable(file, sd, m)
       THEN /\ fault = "none"
            /\ index' = [dim |-> sd, metric |-> m, items |-> file.items,
                         built |-> TRUE]
            /\ conn' = "open"
            /\ lib' = [eDim |-> ed, sDim |-> sd, metric |-> m]
            /\ last' = "open_load"
            /\ UNCHANGED file
       ELSE LET b == Build(table, sd, m, fault, stopAt, file)
            IN  /\ file' = b.file
                /\ IF b.ok
                   THEN /\ index' = b.index
                        /\ conn' = "open"
                        /\ lib' = [eDim |-> ed, sDim |-> sd, metric |-> m]
                        /\ last' = "open_build"
                   ELSE /\ index' = NoIndex
                        /\ conn' = "none"
                        /\ lib' = NoLib
                        /\ last' = IF fault \in BuildCrashes THEN "crash"
                                   ELSE "open_fail"
    /\ env' = fault
    /\ txn' = {}
    /\ issued' = {}
    /\ query' = IF last = "close" /\ conn' = "open" THEN query ELSE NoQuery
    /\ results' = IF last = "close" /\ conn' = "open" THEN results ELSE << >>
    /\ table' = CreateTable(table)
    /\ UNCHANGED <<seq, hist>>

StoreFaults == {"insert_fail", "commit_fail_rollback", "commit_fail_pending",
                "crash_before_commit"}

\* A mutant: store() returns the id without committing.
NoCommit(rows, pending) == [table |-> rows, txn |-> pending]

\* conn.commit(): the open transaction becomes part of the table.
Commit(rows, pending) == [table |-> rows \cup pending, txn |-> {}]

\* ConceptLibrary.add_interaction(text, meta): encode, store (INSERT,
\* commit, lastrowid), rebuild, return the id.
AddInteraction(text, meta, fault, stopAt) ==
    /\ conn = "open"
    /\ NextId <= MaxRecords
    /\ fault \in StoreFaults \cup BuildFaults \cup BuildCrashes
    /\ stopAt \in StopRows(fault, Visible) \cup
                  (IF fault = "read" THEN {Cardinality(Visible) + 1} ELSE {})
    /\ LET vec == Encode(lib.eDim, text)
           id == NextId
           row == Row(id, vec, meta, text)
       IN  IF fault \in StoreFaults
           THEN /\ txn' = IF fault = "commit_fail_pending" THEN txn \cup {row}
                          ELSE IF fault = "insert_fail" THEN txn
                          ELSE {}
                /\ conn' = IF fault = "crash_before_commit" THEN "none" ELSE conn
                /\ lib' = IF fault = "crash_before_commit" THEN NoLib ELSE lib
                /\ index' = IF fault = "crash_before_commit" THEN NoIndex ELSE index
                /\ issued' = IF fault = "crash_before_commit" THEN {} ELSE issued
                /\ last' = IF fault = "crash_before_commit" THEN "crash"
                           ELSE "add_store_fail"
                /\ UNCHANGED <<table, seq, file, hist>>
           ELSE LET c == Commit(table, txn \cup {row})
                    b == Build(c.table \cup c.txn, lib.sDim, lib.metric, fault,
                               stopAt, file)
                IN  /\ table' = c.table
                    /\ seq' = MaxOf({seq} \cup Ids(c.table))
                    /\ file' = b.file
                    /\ hist' = Append(hist, [id |-> id, text |-> text, meta |-> meta,
                                             vector |-> vec, returned |-> b.ok])
                    /\ IF fault \in BuildCrashes
                       THEN /\ conn' = "none"
                            /\ txn' = {}
                            /\ lib' = NoLib
                            /\ index' = NoIndex
                            /\ issued' = {}
                            /\ last' = "crash"
                       ELSE /\ txn' = c.txn
                            /\ index' = b.index
                            /\ issued' = IF b.ok THEN issued \cup {id} ELSE issued
                            /\ last' = IF b.ok THEN "add_ok" ELSE "add_build_fail"
                            /\ UNCHANGED <<conn, lib>>
    /\ env' = fault
    /\ query' = NoQuery
    /\ results' = << >>

\* A mutant: a search drops from the index the ids it found no row for.
SearchPruning(q, k) ==
    /\ conn = "open"
    /\ LET qv == Encode(lib.eDim, q)
       IN  IF Len(qv) # index.dim
           THEN /\ last' = "search_error"
                /\ query' = NoQuery
                /\ results' = << >>
           ELSE /\ last' = "search"
                /\ query' = [q |-> q, k |-> k, eDim |-> lib.eDim,
                             sDim |-> lib.sDim, metric |-> lib.metric]
                /\ results' = Hydrate(Query(index, qv, k), 1, Visible)
    /\ env' = "none"
    /\ index' = [index EXCEPT !.items = {it \in @ : it.id \in Ids(Visible)}]
    /\ UNCHANGED <<table, seq, file, conn, txn, lib, hist, issued>>

\* ConceptLibrary.search(q, k): encode, query the index, hydrate.
\* get_nns_by_vector raises on a query vector of the wrong length.
Search(q, k) ==
    /\ conn = "open"
    /\ LET qv == Encode(lib.eDim, q)
       IN  IF Len(qv) # index.dim
           THEN /\ last' = "search_error"
                /\ query' = NoQuery
                /\ results' = << >>
           ELSE /\ last' = "search"
                /\ query' = [q |-> q, k |-> k, eDim |-> lib.eDim,
                             sDim |-> lib.sDim, metric |-> lib.metric]
                /\ results' = Hydrate(Query(index, qv, k), 1, Visible)
    /\ env' = "none"
    /\ UNCHANGED <<table, seq, file, conn, txn, lib, index, hist, issued>>

\* SQLiteStorage.close(): closing the connection rolls back its open
\* transaction.
Close ==
    /\ conn = "open"
    /\ conn' = "closed"
    /\ txn' = {}
    /\ issued' = {}
    /\ last' = "close"
    /\ env' = "none"
    /\ query' = IF last = "search" THEN query ELSE NoQuery
    /\ results' = IF last = "search" THEN results ELSE << >>
    /\ UNCHANGED <<table, seq, file, lib, index, hist>>

\* The process dies between two operations: everything volatile is lost.
Crash ==
    /\ conn = "open"
    /\ conn' = "none"
    /\ txn' = {}
    /\ lib' = NoLib
    /\ index' = NoIndex
    /\ issued' = {}
    /\ last' = "crash"
    /\ env' = "crash"
    /\ query' = NoQuery
    /\ results' = << >>
    /\ UNCHANGED <<table, seq, file, hist>>

Next ==
    \/ \E ed \in Dims, sd \in Dims, m \in Metrics,
          fault \in BuildFaults \cup BuildCrashes, stopAt \in 0..MaxRecords :
          Open(ed, sd, m, fault, stopAt)
    \/ \E inp \in Inputs,
          fault \in StoreFaults \cup BuildFaults \cup BuildCrashes,
          stopAt \in 0..MaxRecords :
          AddInteraction(inp.text, inp.meta, fault, stopAt)
    \/ \E q \in Queries, k \in 0..MaxTopK : Search(q, k)
    \/ Close
    \/ Crash

Spec == Init /\ [][Next]_vars

\* ---------------------------------------------------------------- claims
HistIds == {hist[i].id : i \in 1..Len(hist)}
ResultIds == {results[i].id : i \in 1..Len(results)}
Opened == last \in {"open_load", "open_build"}

\* The index is a full, built index over exactly the committed rows.
IndexConsistent(ix, rows) ==
    /\ ix.built
    /\ ix.items = {[id |-> r.id, vector |-> VecLoads(r.vector)] : r \in rows}

\* C1: whenever add_interaction has just returned an id, the ids held by
\* the in-memory index are exactly the ids of the rows of the table.
C1_IndexMatchesTableAfterAdd ==
    last = "add_ok" => /\ index.built
                       /\ Ids(index.items) = Ids(table)

\* An add returned on a table holding an earlier record whose own rebuild
\* had failed.
C1_Witness ==
    /\ last = "add_ok"
    /\ Cardinality(table) >= 2
    /\ \E i \in 1..Len(hist) : ~hist[i].returned

\* C2 (as claimed): a search with top_k at least the number of stored
\* records returns every record whose id add_interaction returned earlier
\* on this instance.
C2_ReadYourWrites ==
    (last = "search" /\ query.k >= Cardinality(Visible)) => issued \subseteq ResultIds

\* C3 (as claimed): after construction the ids of the loaded index are the
\* ids of the table, whatever files the previous instance left.
C3_ConsistentAfterConstruction ==
    Opened => Ids(index.items) = Ids(table)

\* C4: the ids store returns, in the order of the calls and across close,
\* crash and reopen, are strictly increasing (so pairwise distinct and
\* never issued twice).
C4_IdsStrictlyIncreasing ==
    \A i, j \in 1..Len(hist) : i < j => hist[i].id < hist[j].id

\* Two ids issued, the second by a later instance than the first.
C4_Witness ==
    /\ Len(hist) >= 2
    /\ last = "add_ok"
    /\ issued = {hist[Len(hist)].id}

\* C5: every search result whose id add_interaction returned carries the
\* raw_text and the metadata that call was given.
C5_RoundTrip ==
    \A i \in 1..Len(results), j \in 1..Len(hist) :
        (hist[j].returned /\ hist[j].id = results[i].id) =>
            /\ results[i].raw_text = hist[j].text
            /\ results[i].metadata = hist[j].meta

\* A search by a later instance returns two records, one of them with a
\* number and a boolean in its metadata.
C5_Witness ==
    /\ last = "search"
    /\ Len(results) = 2
    /\ issued = {}
    /\ \A j \in 1..Len(hist) : hist[j].returned
    /\ \E i \in 1..Len(results) : Len(results[i].metadata) = 2

\* C6 (as claimed): a record whose store failed is never in the table:
\* every committed row was written by a store call that returned its id.
C6_FailedStoreLeavesNoRecord ==
    Ids(table) \subseteq HistIds

\* C7 (as claimed): when a rebuild fails, the index searches use is either
\* a complete built index over all current records or the index that was
\* in use before the call.
C7_BuildNeverPartiallyApplies ==
    [][last' = "add_build_fail" =>
          (index' = index \/ IndexConsistent(index', table'))]_vars

C9_PersistenceRoundTrip ==
    /\ [][(/\ last = "close"
           /\ query # NoQuery
           /\ IndexConsistent(index, table)
           /\ file.status = "valid" /\ file.items = index.items
           /\ conn' = "open"
           /\ lib' = lib) => last' = "open_load"]_vars
    /\ [][(/\ Opened
           /\ query # NoQuery
           /\ last' = "search"
           /\ query' = query) => results' = results]_vars

\* A row as store writes it for some input: no half-written record.
Complete(r) ==
    \E d \in Dims, t \in Texts, m \in Metas : r = Row(r.id, Encode(d, t), m, t)

\* C10: every record store returned an id for is in the table with that
\* id, vector, metadata and raw_text, in every later state and across
\* crashes; and a crash leaves the table as it was or with complete records
\* added, with no record changed or removed.
C10_StoreDurableAndAtomic ==
    [][/\ \A i \in 1..Len(hist') :
            Row(hist'[i].id, hist'[i].vector, hist'[i].meta, hist'[i].text) \in table'
       /\ last' = "crash" =>
            /\ table \subseteq table'
            /\ \A r \in table' \ table : Complete(r)]_vars

\* A crash after store returned: the record is in the table, and the index
\* file is gone.
C10_Witness ==
    /\ last = "crash"
    /\ env = "crash_save_unlinked"
    /\ Len(hist) >= 1
    /\ Cardinality(table) >= 1

\* ------------------------------------------------- dimension mismatch
\* The dimensions an encoder or a storage is constructed with when they
\* may differ.
AllDims == {2, 3}

\* The operations with the encoder's and the storage's dimension chosen
\* independently at each construction, and no fault of the environment.
NextDim ==
    \/ \E ed \in AllDims, sd \in AllDims, m \in Metrics : Open(ed, sd, m, "none", 0)
    \/ \E inp \in Inputs : AddInteraction(inp.text, inp.meta, "none", 0)
    \/ \E q \in Queries, k \in 0..MaxTopK : Search(q, k)
    \/ Close
    \/ Crash

SpecDim == Init /\ [][NextDim]_vars

\* C11 (as claimed): a library whose encoder dimension differs from its
\* storage's embedding_dim never has an add_interaction or a search
\* accepted: the mismatch is surfaced before anything is written or
\* queried.
C11_MismatchNeverAccepted ==
    [][(conn = "open" /\ lib.eDim # lib.sDim) =>
          (table' = table /\ last' # "search")]_vars

\* C12 (as claimed): with n records in the index, a search returns exactly
\* min(top_k, n) results, with pairwise distinct ids.
C12_SearchReturnsMinOfKAndN ==
    last = "search" =>
        /\ Len(results) = Min(query.k, Cardinality(index.items))
        /\ \A i, j \in 1..Len(results) : i # j => results[i].id # results[j].id

\* C13 (as claimed): a search on an index that is a full built index over
\* the table returns the records nearest to the query vector under the
\* metric the storage was constructed with, nearest first.
C13_NearestFirstUnderConfiguredMetric ==
    (last = "search" /\ IndexConsistent(index, table)) =>
        LET r == Ranked(query.metric, Encode(query.eDim, query.q), index.items)
        IN  /\ Len(results) = Min(query.k, Len(r))
            /\ \A i \in 1..Len(results) : results[i].id = r[i].id

\* -------------------------------------------------- external deletion
\* Another process deletes a committed row of the concepts table (DELETE
\* FROM concepts WHERE id = ?), which it can do while no transaction of
\* the engine holds the write lock. sqlite_sequence keeps the largest id
\* ever used, and neither the index in memory nor the index file changes.
ExternalDelete(id) ==
    /\ txn = {}
    /\ id \in Ids(table)
    /\ table' = {r \in table : r.id # id}
    /\ last' = "external_delete"
    /\ env' = "none"
    /\ query' = NoQuery
    /\ results' = << >>
    /\ UNCHANGED <<seq, file, conn, txn, lib, index, hist, issued>>

\* The faults of the environment under which rows are deleted externally:
\* those of store().
AdminFaults == StoreFaults \cup {"none"}

\* The operations of the engine with the faults of store(), and external
\* deletion of rows.
NextAdmin ==
    \/ \E ed \in Dims, sd \in Dims, m \in Metrics : Open(ed, sd, m, "none", 0)
    \/ \E inp \in Inputs, fault \in AdminFaults :
          AddInteraction(inp.text, inp.meta, fault, 0)
    \/ \E q \in Queries, k \in 0..MaxTopK : Search(q, k)
    \/ Close
    \/ Crash
    \/ \E id \in 1..MaxRecords : ExternalDelete(id)

SpecAdmin == Init /\ [][NextAdmin]_vars

\* The ids of a sequence of neighbour ids that have a row among rows, in
\* their order.
Live(nids, rows) == SelectSeq(nids, LAMBDA id : id \in Ids(rows))

\* C14: a search returns, in the order the index gave them, exactly the
\* neighbours that have a row; ids without a row are left out, and every
\* result carries the text, the metadata and the vector of its row.
C14_DanglingIdsSkipped ==
    last = "search" =>
        LET nids == Query(index, Encode(query.eDim, query.q), query.k)
            live == Live(nids, Visible)
        IN  /\ Len(results) = Len(live)
            /\ \A i \in 1..Len(results) :
                 /\ results[i].id = live[i]
                 /\ \E r \in Visible :
                      /\ r.id = results[i].id
                      /\ r.raw_text = results[i].raw_text
                      /\ JsonLoads(r.metadata) = results[i].metadata
                      /\ VecLoads(r.vector) = results[i].vector

\* A search whose nearest neighbour has no row any more and whose second
\* neighbour is returned.
C14_Witness ==
    /\ last = "search"
    /\ LET nids == Query(index, Encode(query.eDim, query.q), query.k)
       IN  /\ Len(nids) = 2
           /\ nids[1] \notin Ids(Visible)
           /\ Len(results) = 1
           /\ results[1].id = nids[2]

\* C15 (as claimed): an id is returned only once its row is committed, in
\* the rebuilt index and in the saved index file; and between operations
\* of an open storage the ids of the index file are the ids of the index
\* in memory.
C15_FileMatchesIndexWhenIdle ==
    /\ last = "add_ok" =>
         LET id == hist[Len(hist)].id
         IN  /\ id \in Ids(table)
             /\ index.built /\ id \in Ids(index.items)
             /\ file.status = "valid" /\ id \in Ids(file.items)
    /\ conn = "open" => Ids(file.items) = Ids(index.items)

\* C16: no operation of the engine removes or changes a committed row,
\* and every row a store call committed is in the table, as written, ever
\* after (across searches, close, crash and reopen).
C16_RecordsNeverChange ==
    /\ [][\A r \in table : r \in table']_vars
    /\ [](\A j \in 1..Len(hist) :
            Row(hist[j].id, hist[j].vector, hist[j].meta, hist[j].text) \in table)

\* A storage reopened from its index file on a table of two records, both
\* written by earlier instances.
C16_Witness ==
    /\ last = "open_load"
    /\ Cardinality(table) = 2
    /\ Len(hist) = 2
    /\ issued = {}

\* C17 (as claimed): the index an open storage queries has the metric the
\* storage was constructed with, after a load and after every rebuild.
C17_MetricFixedAtConstruction ==
    conn = "open" => index.metric = lib.metric

\* C18: a search, whatever it returns, leaves the table, the open
\* transaction, the index in memory, the index file and the next id to be
\* assigned as they were.
C18_SearchIsReadOnly ==
    [][last' \in {"search", "search_error"} =>
          /\ table' = table
          /\ txn' = txn
          /\ index' = index
          /\ file' = file
          /\ seq' = seq
          /\ NextId' = NextId]_vars

\* A search that skipped an id without a row while an insert of this
\* connection was still uncommitted.
C18_Witness ==
    /\ last = "search"
    /\ txn # {}
    /\ index.built
    /\ Ids(index.items) \ Ids(Visible) # {}
    /\ Len(results) < Min(query.k, Cardinality(index.items))

====
